---- MODULE Spec2Model ----
(***************************************************************************)
(* Verification model of the StravaRTB segment-challenge tracker.          *)
(*                                                                         *)
(*   streamlit_app.py : the leaderboard app: registration (OAuth callback  *)
(*                      with backfill), the admin tabs Add / Edit / Sync / *)
(*                      Delete, and the fetcher fetch_activities.          *)
(*   daily_sync.py    : the scheduled daily sync over the sheet that       *)
(*                      app.py registers runners into.                     *)
(*                                                                         *)
(* Time is in epoch seconds on a small scale; the upstream service is a    *)
(* set of activities that grows; every upstream HTTP response (status of   *)
(* the token, list and detail calls) is an input chosen per call.          *)
(***************************************************************************)
EXTENDS Integers, Sequences, FiniteSets, TLC

VARIABLES
    upstream,            \* ids of the activities that exist upstream
    sheet,               \* sh.sheet1 of streamlit_app.py: the runner rows below the header
    feed,                \* the "ActivityFeed" worksheet rows below the header
    pc,                  \* position of the Sync tab's handler
    force_full_sync,     \* the checkbox value the running cycle was started with
    records,             \* records = sheet.get_all_records() of the running cycle
    df_sync,             \* the in-memory DataFrame of the running cycle
    existing_keys,       \* (Runner, Timestamp) keys read from the feed
    all_new_feed_items,  \* feed items queued by the running cycle
    updates_made,        \* the flag guarding the batched write
    i,                   \* the row the loop is at (1-based)
    responses,           \* upstream responses each row of the running cycle met
    last_edit,           \* cell A1 of the "Metadata" worksheet: which handler stamped it last
    fin, fout,           \* input and result of a stand-alone fetch_activities call
    rin, rout,           \* input and results of two forced resyncs of one row
    dsheet,              \* the sheet of app.py and daily_sync.py: the rows below the header
    dpc,                 \* position of daily_sync.py's sync()
    drows,               \* rows = sheet.get_all_records() of the running daily sync
    di,                  \* the row sync() is at (1-based)
    latest_run_time,     \* the bookmark sync() is about to write for row di
    dlog                 \* upstream responses and calls of each row of the running sync()

syncLocals == <<pc, force_full_sync, records, df_sync, existing_keys,
                all_new_feed_items, updates_made, i, responses>>
dailyVars == <<dsheet, dpc, drows, di, latest_run_time, dlog>>
vars == <<upstream, sheet, feed, pc, force_full_sync, records, df_sync,
          existing_keys, all_new_feed_items, updates_made, i, responses, last_edit,
          fin, fout, rin, rout, dsheet, dpc, drows, di, latest_run_time, dlog>>

-----------------------------------------------------------------------------
(* Configuration *)

\* int(CHALLENGE_START_DATE.timestamp()) on the model's time scale
CHALLENGE_START == 1

\* the keys of SEGMENTS: the tracked segment ids (two stand for the seven)
SEGMENT_IDS == {1, 2}

\* the activity types fetch_activities keeps
TRACKED_TYPES == {"Run", "Walk", "Hike"}

\* per_page of the list call
PER_PAGE == 50

None == "None"

-----------------------------------------------------------------------------
(* The upstream service *)

\* The athletes that can authorise the app: id, name, refresh credential.
Athletes == {
    [id |-> 1, firstname |-> "Ann", lastname |-> "A", refresh_token |-> "rt1"],
    [id |-> 2, firstname |-> "Bob", lastname |-> "B", refresh_token |-> "rt2"] }

\* Every activity that can ever exist upstream.  start_date is the UTC start
\* as epoch seconds, start_date_local the local-time string of the same start;
\* efforts lists the segment id of each effort (9 is a segment not tracked).
Activities == {
    [id |-> 1, owner |-> 1, type |-> "Run",  start_date |-> 2,
     start_date_local |-> "d2", efforts |-> <<1, 1, 9>>],
    [id |-> 2, owner |-> 1, type |-> "Swim", start_date |-> 3,
     start_date_local |-> "d3", efforts |-> <<2>>],
    [id |-> 3, owner |-> 1, type |-> "Hike", start_date |-> 3,
     start_date_local |-> "d3", efforts |-> <<2>>],
    [id |-> 4, owner |-> 2, type |-> "Walk", start_date |-> 2,
     start_date_local |-> "d2", efforts |-> <<9>>] }

ActivityIds == {a.id : a \in Activities}

Activity(id) == CHOOSE a \in Activities : a.id = id

\* the athlete an access or refresh credential belongs to
OwnerOf(token) ==
    CASE token \in {"rt1", "at1"} -> 1
      [] token \in {"rt2", "at2"} -> 2
      [] OTHER -> 0

AccessTokenOf(refresh_token) ==
    CASE refresh_token = "rt1" -> "at1"
      [] refresh_token = "rt2" -> "at2"
      [] OTHER -> None

\* the bodies a token endpoint can answer with
TokenResponses == {"ok", "no_access_token", "non200"}

\* the activities of `ids`, oldest first (the order of a list call with `after`)
RECURSIVE OldestFirst(_)
OldestFirst(ids) ==
    IF ids = {} THEN <<>>
    ELSE LET first == CHOOSE x \in ids : \A y \in ids :
                          \/ Activity(x).start_date < Activity(y).start_date
                          \/ /\ Activity(x).start_date = Activity(y).start_date
                             /\ x <= y
         IN <<Activity(first)>> \o OldestFirst(ids \ {first})

FirstN(s, n) == IF Len(s) <= n THEN s ELSE SubSeq(s, 1, n)

\* GET /athlete/activities?after=<epoch>&per_page=<n>, status 200
ListActivities(up, access_token, after, per_page) ==
    FirstN(OldestFirst({id \in up : /\ Activity(id).owner = OwnerOf(access_token)
                                      /\ Activity(id).start_date > after}),
           per_page)

-----------------------------------------------------------------------------
(* fetch_activities *)

ZeroCounts == [sid \in SEGMENT_IDS |-> 0]

RECURSIVE SumOver(_, _)
SumOver(f, S) ==
    IF S = {} THEN 0
    ELSE LET x == CHOOSE y \in S : TRUE IN f[x] + SumOver(f, S \ {x})

\* sum(counts.values())
SumCounts(counts) == SumOver(counts, DOMAIN counts)

\* the number of efforts of `efforts` on segment sid
Occurrences(efforts, sid) == Cardinality({k \in DOMAIN efforts : efforts[k] = sid})

\* the number of efforts on tracked segments: segments_matched_in_this_run
Matched(efforts) == Cardinality({k \in DOMAIN efforts : efforts[k] \in SEGMENT_IDS})

\* the watermark candidate after looking at one activity that passed the type test
AdvanceEpoch(current_max_epoch, act) ==
    IF act.start_date > current_max_epoch THEN act.start_date ELSE current_max_epoch

\* whether the loop skips the activity before anything else
TypeSkipped(act) == act.type \notin TRACKED_TYPES

\* CountEfforts with a segment counted once per activity, however many efforts
CountEfforts_OncePerSegment(counts, efforts) ==
    [sid \in SEGMENT_IDS |-> counts[sid] + (IF Occurrences(efforts, sid) > 0 THEN 1 ELSE 0)]

\* counts after the inner loop over one activity's efforts
CountEfforts(counts, efforts) ==
    [sid \in SEGMENT_IDS |-> counts[sid] + Occurrences(efforts, sid)]

FeedItem(runner_name, act) ==
    [Runner |-> runner_name, Timestamp |-> act.start_date_local, Title |-> act.id]

\* FetchOne with the watermark candidate advanced before the type test
FetchOne_AdvanceBeforeTypeTest(st, act, detail_ok, runner_name) ==
    LET epoch == AdvanceEpoch(st.current_max_epoch, act)
    IN  IF TypeSkipped(act) THEN [st EXCEPT !.current_max_epoch = epoch]
        ELSE LET calls == st.calls \o <<[op |-> "sleep", id |-> act.id],
                                        [op |-> "detail", id |-> act.id]>>
             IN  IF act.id \in detail_ok
                 THEN [counts |-> CountEfforts(st.counts, act.efforts),
                       current_max_epoch |-> epoch,
                       feed_items |-> IF Matched(act.efforts) > 0
                                      THEN Append(st.feed_items, FeedItem(runner_name, act))
                                      ELSE st.feed_items,
                       calls |-> calls]
                 ELSE [st EXCEPT !.current_max_epoch = epoch, !.calls = calls]

\* FetchOne with a feed item built for every detail fetched, matched or not
FetchOne_FeedWithoutMatch(st, act, detail_ok, runner_name) ==
    IF TypeSkipped(act) THEN st
    ELSE LET epoch == AdvanceEpoch(st.current_max_epoch, act)
             calls == st.calls \o <<[op |-> "sleep", id |-> act.id],
                                    [op |-> "detail", id |-> act.id]>>
         IN  IF act.id \in detail_ok
             THEN [counts |-> CountEfforts(st.counts, act.efforts),
                   current_max_epoch |-> epoch,
                   feed_items |-> Append(st.feed_items, FeedItem(runner_name, act)),
                   calls |-> calls]
             ELSE [st EXCEPT !.current_max_epoch = epoch, !.calls = calls]

\* FetchOne with the detail call issued without the pause before it
FetchOne_NoDelay(st, act, detail_ok, runner_name) ==
    IF TypeSkipped(act) THEN st
    ELSE LET epoch == AdvanceEpoch(st.current_max_epoch, act)
             calls == Append(st.calls, [op |-> "detail", id |-> act.id])
         IN  IF act.id \in detail_ok
             THEN [counts |-> CountEfforts(st.counts, act.efforts),
                   current_max_epoch |-> epoch,
                   feed_items |-> IF Matched(act.efforts) > 0
                                  THEN Append(st.feed_items, FeedItem(runner_name, act))
                                  ELSE st.feed_items,
                   calls |-> calls]
             ELSE [st EXCEPT !.current_max_epoch = epoch, !.calls = calls]

\* One iteration of `for act in activities`.  st holds counts, current_max_epoch,
\* feed_items and the upstream calls made so far; detail_ok is the set of
\* activity ids whose detail call answers 200.
FetchOne(st, act, detail_ok, runner_name) ==
    IF TypeSkipped(act) THEN st
    ELSE LET epoch == AdvanceEpoch(st.current_max_epoch, act)
             calls == st.calls \o <<[op |-> "sleep", id |-> act.id],
                                    [op |-> "detail", id |-> act.id]>>
         IN  IF act.id \in detail_ok
             THEN [counts |-> CountEfforts(st.counts, act.efforts),
                   current_max_epoch |-> epoch,
                   feed_items |-> IF Matched(act.efforts) > 0
                                  THEN Append(st.feed_items, FeedItem(runner_name, act))
                                  ELSE st.feed_items,
                   calls |-> calls]
             ELSE [st EXCEPT !.current_max_epoch = epoch, !.calls = calls]

RECURSIVE FetchLoop(_, _, _, _)
FetchLoop(st, activities, detail_ok, runner_name) ==
    IF activities = <<>> THEN st
    ELSE FetchLoop(FetchOne(st, Head(activities), detail_ok, runner_name),
                   Tail(activities), detail_ok, runner_name)

\* fetch_activities(access_token, start_epoch, runner_name) against the upstream
\* state `up`, where the list call answers 200 iff list_ok.
fetch_activities(up, list_ok, detail_ok, access_token, start_epoch, runner_name) ==
    LET st0 == [counts |-> ZeroCounts, current_max_epoch |-> start_epoch,
                feed_items |-> <<>>, calls |-> <<[op |-> "list", id |-> 0]>>]
    IN  IF ~list_ok THEN st0
        ELSE FetchLoop(st0, ListActivities(up, access_token, start_epoch, PER_PAGE),
                       detail_ok, runner_name)

-----------------------------------------------------------------------------
(* The store: rows of sheet1 and of the ActivityFeed worksheet *)

\* bound: the number of runner rows the sheet can hold
MaxRows == 2

\* bound: the number of feed rows the ActivityFeed worksheet can hold
MaxFeed == 2

\* bound: the largest number an admin types into a segment field
MaxEdit == 1

Range(s) == {s[k] : k \in DOMAIN s}

RowOf(athlete_id, name, refresh_token, last_synced, counts) ==
    [athlete_id |-> athlete_id, name |-> name, refresh_token |-> refresh_token,
     last_synced |-> last_synced, total_count |-> SumCounts(counts), seg |-> counts]

\* s without its k-th element: sheet.delete_rows(k + 1)
RemoveAt(s, k) == [j \in 1..(Len(s) - 1) |-> IF j < k THEN s[j] ELSE s[j + 1]]

\* df[df['name'] == name].index[0], 1-based
FirstIndexByName(rows, name) ==
    CHOOSE k \in DOMAIN rows :
        /\ rows[k].name = name
        /\ \A j \in DOMAIN rows : rows[j].name = name => k <= j

\* str.replace(" *", "") on the names the model uses
StripMarker(name) ==
    CASE name = "Cat *" -> "Cat"
      [] OTHER -> name

\* pd.to_numeric(..., errors='coerce').fillna(0).astype(int) on one cell
to_numeric(v) == IF v \in Int THEN v ELSE 0

\* the numeric_cols coercion of df_sync
CoerceRow(row) ==
    [row EXCEPT !.last_synced = to_numeric(@), !.total_count = to_numeric(@),
                !.seg = [sid \in SEGMENT_IDS |-> to_numeric(@[sid])]]

ReadRecords(rows) == [k \in DOMAIN rows |-> CoerceRow(rows[k])]

FeedKey(item) == <<item.Runner, item.Timestamp>>

\* set((row['Runner'], row['Timestamp']) for row in existing_feed), or set()
\* when reading the worksheet raised
ReadFeedKeys(feed_rows, read_ok) ==
    IF read_ok THEN {FeedKey(feed_rows[k]) : k \in DOMAIN feed_rows} ELSE {}

-----------------------------------------------------------------------------
(* The Sync tab *)

\* get_new_token: the access credential, or None
get_new_token(resp, refresh_token) ==
    IF resp = "ok" THEN AccessTokenOf(refresh_token) ELSE None

\* FetchMode with a watermark at the challenge start taken as advanced
FetchMode_AtStartIncremental(force, last_sync_ts) ==
    IF force THEN "FULL"
    ELSE IF last_sync_ts # 0 /\ last_sync_ts >= CHALLENGE_START THEN "INCREMENTAL"
    ELSE "FULL"

\* the hybrid sync logic: which mode a row is fetched in
FetchMode(force, last_sync_ts) ==
    IF force THEN "FULL"
    ELSE IF last_sync_ts # 0 /\ last_sync_ts > CHALLENGE_START THEN "INCREMENTAL"
    ELSE "FULL"

\* FetchStart with every mode fetching from the challenge start
FetchStart_AlwaysChallengeStart(fetch_mode, last_sync_ts) == CHALLENGE_START

\* start_epoch of the row's fetch: the watermark, or the challenge start
FetchStart(fetch_mode, last_sync_ts) ==
    IF fetch_mode = "INCREMENTAL" THEN last_sync_ts ELSE CHALLENGE_START

\* MergeRow with the INCREMENTAL branch leaving total_count as it was read
MergeRow_StaleTotal(row, fetch_mode, new_counts, new_epoch) ==
    IF fetch_mode = "INCREMENTAL"
    THEN [row EXCEPT !.last_synced = new_epoch,
                     !.seg = [sid \in SEGMENT_IDS |-> @[sid] + new_counts[sid]]]
    ELSE [row EXCEPT !.last_synced = new_epoch,
                     !.total_count = SumCounts(new_counts),
                     !.seg = [sid \in SEGMENT_IDS |-> new_counts[sid]]]

\* MergeRow with the INCREMENTAL branch overwriting like the FULL branch
MergeRow_IncrementalReplaces(row, fetch_mode, new_counts, new_epoch) ==
    [row EXCEPT !.last_synced = new_epoch,
                !.total_count = SumCounts(new_counts),
                !.seg = [sid \in SEGMENT_IDS |-> new_counts[sid]]]

\* MergeRow with the FULL branch adding like the INCREMENTAL branch
MergeRow_FullAdds(row, fetch_mode, new_counts, new_epoch) ==
    [row EXCEPT !.last_synced = new_epoch,
                !.total_count = @ + SumCounts(new_counts),
                !.seg = [sid \in SEGMENT_IDS |-> @[sid] + new_counts[sid]]]

\* MergeRow with the FULL branch keeping the stored total's offset from the
\* stored segment sum
MergeRow_FullCarriesDrift(row, fetch_mode, new_counts, new_epoch) ==
    IF fetch_mode = "INCREMENTAL"
    THEN [row EXCEPT !.last_synced = new_epoch,
                     !.total_count = @ + SumCounts(new_counts),
                     !.seg = [sid \in SEGMENT_IDS |-> @[sid] + new_counts[sid]]]
    ELSE [row EXCEPT !.last_synced = new_epoch,
                     !.total_count = @ - SumCounts(row.seg) + SumCounts(new_counts),
                     !.seg = [sid \in SEGMENT_IDS |-> new_counts[sid]]]

\* the update of row i of df_sync
MergeRow(row, fetch_mode, new_counts, new_epoch) ==
    LET total_new == SumCounts(new_counts)
    IN  IF fetch_mode = "INCREMENTAL"
        THEN [row EXCEPT !.last_synced = new_epoch,
                         !.total_count = @ + total_new,
                         !.seg = [sid \in SEGMENT_IDS |-> @[sid] + new_counts[sid]]]
        ELSE [row EXCEPT !.last_synced = new_epoch,
                         !.total_count = total_new,
                         !.seg = [sid \in SEGMENT_IDS |-> new_counts[sid]]]

\* whether the dedup loop queues an item
IsNewKey(key, keys) == key \notin keys

\* the dedup loop over new_feed: the queue and the key set it leaves
RECURSIVE DedupFeed(_, _, _)
DedupFeed(new_feed, queued, keys) ==
    IF new_feed = <<>> THEN [queued |-> queued, keys |-> keys]
    ELSE LET item == Head(new_feed)
         IN  IF IsNewKey(FeedKey(item), keys)
             THEN DedupFeed(Tail(new_feed), Append(queued, item), keys \cup {FeedKey(item)})
             ELSE DedupFeed(Tail(new_feed), queued, keys)

\* sheet.update(range_name='A1', values=data_to_upload): the rows of df are
\* written over the first rows of the sheet; rows below them are left alone
WriteRange(rows, df) ==
    [k \in 1..(IF Len(rows) > Len(df) THEN Len(rows) ELSE Len(df)) |->
        IF k <= Len(df) THEN df[k] ELSE rows[k]]

\* the ids whose detail call fetch_activities would make for this list
DetailIds(up, access_token, after) ==
    {id \in up : /\ Activity(id).owner = OwnerOf(access_token)
                 /\ Activity(id).start_date > after
                 /\ ~TypeSkipped(Activity(id))}

\* whether the loop polls the row at all
NotPolled(row) == row.refresh_token = "MANUAL" \/ row.refresh_token = "SCRAPED"

\* The upstream responses one loop iteration can meet on `row`: the token
\* endpoint's answer, whether the list call answers 200, and the ids whose
\* detail call does not answer 200.
RowResponses(up, force, row) ==
    IF NotPolled(row)
    THEN {[token |-> "not_polled", list_ok |-> FALSE, detail_fail |-> {}]}
    ELSE LET fetch_start == FetchStart(FetchMode(force, row.last_synced), row.last_synced)
         IN  {[token |-> t, list_ok |-> FALSE, detail_fail |-> {}] : t \in TokenResponses}
             \cup {[token |-> "ok", list_ok |-> TRUE, detail_fail |-> d] :
                     d \in SUBSET DetailIds(up, AccessTokenOf(row.refresh_token), fetch_start)}

\* One iteration of `for i, row in df_sync.iterrows()` on row k, meeting the
\* upstream responses resp.  loop holds the handler's locals df_sync,
\* existing_keys, all_new_feed_items and updates_made, and the log of the
\* responses met and the upstream calls made.
ProcessRow(loop, k, resp, up, force) ==
    LET row == loop.df_sync[k]
    IN  IF NotPolled(row)
        THEN [loop EXCEPT !.responses = Append(@, [token |-> resp.token, mode |-> None,
                              start |-> 0,
                              list_ok |-> FALSE, detail_fail |-> {}, counts |-> ZeroCounts,
                              epoch |-> 0, calls |-> <<>>])]
        ELSE LET new_token == get_new_token(resp.token, row.refresh_token)
             IN  IF new_token = None
                 THEN [loop EXCEPT !.responses = Append(@,
                          [token |-> resp.token, mode |-> None, start |-> 0,
                           list_ok |-> FALSE,
                           detail_fail |-> {}, counts |-> ZeroCounts, epoch |-> 0,
                           calls |-> <<[op |-> "token", id |-> 0],
                                       [op |-> "sleep1", id |-> 0]>>])]
                 ELSE LET clean_name  == StripMarker(row.name)
                          fetch_mode  == FetchMode(force, row.last_synced)
                          fetch_start == FetchStart(fetch_mode, row.last_synced)
                          got == fetch_activities(up, resp.list_ok,
                                                  ActivityIds \ resp.detail_fail,
                                                  new_token, fetch_start, clean_name)
                          dd  == DedupFeed(got.feed_items, loop.all_new_feed_items,
                                           loop.existing_keys)
                      IN  [df_sync |-> [loop.df_sync EXCEPT ![k] =
                               MergeRow(row, fetch_mode, got.counts, got.current_max_epoch)],
                           existing_keys |-> dd.keys,
                           all_new_feed_items |-> dd.queued,
                           updates_made |-> TRUE,
                           responses |-> Append(loop.responses,
                               [token |-> resp.token, mode |-> fetch_mode,
                                start |-> fetch_start,
                                list_ok |-> resp.list_ok, detail_fail |-> resp.detail_fail,
                                counts |-> got.counts, epoch |-> got.current_max_epoch,
                                calls |-> <<[op |-> "token", id |-> 0]>> \o got.calls
                                          \o <<[op |-> "sleep1", id |-> 0]>>])]

\* the handler's locals after "1. READ ALL DATA INTO MEMORY ONCE"
StartLoop(rows, feed_rows, feed_read_ok) ==
    [df_sync |-> ReadRecords(rows),
     existing_keys |-> ReadFeedKeys(feed_rows, feed_read_ok),
     all_new_feed_items |-> <<>>,
     updates_made |-> FALSE,
     responses |-> <<>>]

\* the sheet after "3. BATCH WRITE EVERYTHING BACK ONCE"
BatchWrite(rows, df, made) == IF made THEN WriteRange(rows, df) ELSE rows

\* get_last_edit_time() before any update_last_edit()
NoUpdatesYet == "No updates yet"

IdleLocals ==
    /\ pc = "idle"
    /\ force_full_sync = FALSE
    /\ records = <<>>
    /\ df_sync = <<>>
    /\ existing_keys = {}
    /\ all_new_feed_items = <<>>
    /\ updates_made = FALSE
    /\ i = 0
    /\ responses = <<>>

\* the handler returns (or dies): its locals are gone
EndHandler ==
    /\ pc' = "idle"
    /\ force_full_sync' = FALSE
    /\ records' = <<>>
    /\ df_sync' = <<>>
    /\ existing_keys' = {}
    /\ all_new_feed_items' = <<>>
    /\ updates_made' = FALSE
    /\ i' = 0
    /\ responses' = <<>>

\* st.button("Start Sync"): read everything into memory once
SyncStart ==
    /\ pc = "idle"
    /\ \E force \in BOOLEAN, feed_read_ok \in BOOLEAN :
        LET loop == StartLoop(sheet, feed, feed_read_ok)
        IN  /\ force_full_sync' = force
            /\ records' = sheet
            /\ df_sync' = loop.df_sync
            /\ existing_keys' = loop.existing_keys
            /\ all_new_feed_items' = loop.all_new_feed_items
            /\ updates_made' = loop.updates_made
            /\ responses' = loop.responses
    /\ i' = 1
    /\ pc' = "loop"
    /\ UNCHANGED <<upstream, sheet, feed, last_edit, fin, fout, rin, rout, dailyVars>>

\* one iteration of the loop: skip, failed refresh, or fetch and merge
SyncRow ==
    /\ pc = "loop"
    /\ i <= Len(df_sync)
    /\ \E resp \in RowResponses(upstream, force_full_sync, df_sync[i]) :
        LET loop == ProcessRow([df_sync |-> df_sync, existing_keys |-> existing_keys,
                                all_new_feed_items |-> all_new_feed_items,
                                updates_made |-> updates_made, responses |-> responses],
                               i, resp, upstream, force_full_sync)
        IN  /\ df_sync' = loop.df_sync
            /\ existing_keys' = loop.existing_keys
            /\ all_new_feed_items' = loop.all_new_feed_items
            /\ updates_made' = loop.updates_made
            /\ responses' = loop.responses
    /\ i' = i + 1
    /\ UNCHANGED <<upstream, sheet, feed, pc, force_full_sync, records, last_edit, fin, fout, rin, rout, dailyVars>>

\* after the loop: the batched write (skipped when no row was updated) succeeded
SyncWrite ==
    /\ pc = "loop"
    /\ i > Len(df_sync)
    /\ sheet' = BatchWrite(sheet, df_sync, updates_made)
    /\ pc' = "feed"
    /\ UNCHANGED <<upstream, feed, force_full_sync, records, df_sync, existing_keys,
                   all_new_feed_items, updates_made, i, responses, last_edit, fin, fout, rin, rout, dailyVars>>

\* FailedWrite with the first row of the frame written before the call raised
FailedWrite_FirstRowWritten(rows, df) ==
    IF df = <<>> THEN rows ELSE [rows EXCEPT ![1] = df[1]]

\* the sheet after a sheet.update call that raised: the request was refused
FailedWrite(rows, df) == rows

\* after the loop: sheet.update raised; nothing in the handler catches it
SyncWriteFail ==
    /\ pc = "loop"
    /\ i > Len(df_sync)
    /\ updates_made
    /\ sheet' = FailedWrite(sheet, df_sync)
    /\ pc' = "raised"
    /\ UNCHANGED <<upstream, feed, force_full_sync, records, df_sync, existing_keys,
                   all_new_feed_items, updates_made, i, responses, last_edit,
                   fin, fout, rin, rout, dailyVars>>

\* the exception leaves the handler: the script run ends with the error shown
SyncRaised ==
    /\ pc = "raised"
    /\ EndHandler
    /\ UNCHANGED <<upstream, sheet, feed, last_edit, fin, fout, rin, rout, dailyVars>>

\* the feed after fw.append_rows(all_new_feed_items) inside try/except
AppendFeed(feed_rows, items, append_ok) ==
    IF items # <<>> /\ append_ok THEN feed_rows \o items ELSE feed_rows

\* the feed append of the cycle: appended, or dropped when the call raised
SyncFeed ==
    /\ pc = "feed"
    /\ \E append_ok \in BOOLEAN :
        /\ append_ok => Len(feed) + Len(all_new_feed_items) <= MaxFeed
        /\ feed' = AppendFeed(feed, all_new_feed_items, append_ok)
    /\ pc' = "mark"
    /\ UNCHANGED <<upstream, sheet, force_full_sync, records, df_sync, existing_keys,
                   all_new_feed_items, updates_made, i, responses, last_edit, fin, fout, rin, rout, dailyVars>>

\* update_last_edit() and the end of the handler
SyncMark ==
    /\ pc = "mark"
    /\ last_edit' = "sync"
    /\ EndHandler
    /\ UNCHANGED <<upstream, sheet, feed, fin, fout, rin, rout, dailyVars>>

\* the locals the loop can end with, from row k on
RECURSIVE LoopOutcomes(_, _, _, _)
LoopOutcomes(loop, k, up, force) ==
    IF k > Len(loop.df_sync) THEN {loop}
    ELSE UNION {LoopOutcomes(ProcessRow(loop, k, resp, up, force), k + 1, up, force) :
                  resp \in RowResponses(up, force, loop.df_sync[k])}

\* what the loop leaves for the steps after it: the rows, the queued feed
\* items and the flag
CycleOutcomes(rows, feed_rows, feed_read_ok, up, force) ==
    {[df_sync |-> loop.df_sync, all_new_feed_items |-> loop.all_new_feed_items,
      updates_made |-> loop.updates_made] :
        loop \in LoopOutcomes(StartLoop(rows, feed_rows, feed_read_ok), 1, up, force)}

\* a whole cycle of the Sync tab run without interruption, from "Start Sync"
\* to st.rerun(), or to the exception of a failed batched write
SyncCycle ==
    /\ pc = "idle"
    /\ \E force \in BOOLEAN, feed_read_ok \in BOOLEAN :
       \E out \in CycleOutcomes(sheet, feed, feed_read_ok, upstream, force) :
          \/ /\ out.updates_made
             /\ sheet' = FailedWrite(sheet, out.df_sync)
             /\ UNCHANGED <<feed, last_edit>>
          \/ \E append_ok \in BOOLEAN :
               /\ append_ok => Len(feed) + Len(out.all_new_feed_items) <= MaxFeed
               /\ ~append_ok => out.all_new_feed_items # <<>>
               /\ sheet' = BatchWrite(sheet, out.df_sync, out.updates_made)
               /\ feed' = AppendFeed(feed, out.all_new_feed_items, append_ok)
               /\ last_edit' = "sync"
    /\ UNCHANGED <<upstream, pc, force_full_sync, records, df_sync, existing_keys,
                   all_new_feed_items, updates_made, i, responses, fin, fout, rin, rout,
                   dailyVars>>

-----------------------------------------------------------------------------
(* The sidebar callback and the other admin tabs *)

FullName(ath) == ath.firstname \o " " \o ath.lastname

\* the names an admin types into the Add tab
ManualNames == {"Cat"}

\* random.randint(10000000, 99999999) on the model's scale
FakeIds == {90}

\* the values the number inputs of a form can hold
FormValues == [SEGMENT_IDS -> 0..MaxEdit]

\* the row a SCRAPED placeholder is upgraded from, if any: scraped_match.index[0]
ScrapedMatch(rows, new_full_name) ==
    {k \in DOMAIN rows : /\ StripMarker(rows[k].name) = new_full_name
                         /\ rows[k].refresh_token = "SCRAPED"
                         /\ \A j \in DOMAIN rows :
                               (/\ StripMarker(rows[j].name) = new_full_name
                                /\ rows[j].refresh_token = "SCRAPED") => k <= j}

\* the sheet after the upgrade step of the callback
AfterUpgrade(rows, new_full_name) ==
    IF ScrapedMatch(rows, new_full_name) = {} THEN rows
    ELSE RemoveAt(rows, CHOOSE k \in ScrapedMatch(rows, new_full_name) : TRUE)

\* new_row of the callback
NewRunnerRow(ath, got) ==
    [athlete_id |-> ath.id, name |-> FullName(ath), refresh_token |-> ath.refresh_token,
     last_synced |-> got.current_max_epoch, total_count |-> SumCounts(got.counts),
     seg |-> got.counts]

\* is_already_connected with the roster never consulted
is_already_connected_Never(rows, ath) == FALSE

\* ath['id'] in df_auth['athlete_id'].values
is_already_connected(rows, ath) ==
    \E k \in DOMAIN rows : rows[k].athlete_id = ath.id

\* the callback's script run, whatever other handler is running
HandleCallback ==
    /\ \E ath \in Athletes :
        IF is_already_connected(sheet, ath)
        THEN UNCHANGED <<sheet, feed, last_edit>>
        ELSE \E list_ok \in BOOLEAN, append_ok \in BOOLEAN :
             \E detail_fail \in SUBSET (IF list_ok
                                        THEN DetailIds(upstream, AccessTokenOf(ath.refresh_token),
                                                       CHALLENGE_START)
                                        ELSE {}) :
               LET got == fetch_activities(upstream, list_ok, ActivityIds \ detail_fail,
                                           AccessTokenOf(ath.refresh_token),
                                           CHALLENGE_START, FullName(ath))
                   kept == AfterUpgrade(sheet, FullName(ath))
               IN  /\ Len(kept) < MaxRows
                   /\ append_ok => Len(feed) + Len(got.feed_items) <= MaxFeed
                   /\ feed' = AppendFeed(feed, got.feed_items, append_ok)
                   /\ sheet' = Append(kept, NewRunnerRow(ath, got))
                   /\ last_edit' = "registration"
    /\ UNCHANGED <<upstream, pc, force_full_sync, records, df_sync, existing_keys,
                   all_new_feed_items, updates_made, i, responses, fin, fout, rin, rout, dailyVars>>

\* "code" in st.query_params: the OAuth callback of an athlete
Register == pc = "idle" /\ HandleCallback

\* new_row of the Add tab
ManualRow(fake_id, new_name, new_values) ==
    [athlete_id |-> fake_id, name |-> new_name \o " *", refresh_token |-> "MANUAL",
     last_synced |-> 0, total_count |-> SumCounts(new_values), seg |-> new_values]

\* Add tab: "Add Runner" with a name
AddRunner ==
    /\ pc = "idle"
    /\ Len(sheet) < MaxRows
    /\ \E new_name \in ManualNames, fake_id \in FakeIds, new_values \in FormValues :
        sheet' = Append(sheet, ManualRow(fake_id, new_name, new_values))
    /\ last_edit' = "add"
    /\ UNCHANGED <<upstream, feed, pc, force_full_sync, records, df_sync, existing_keys,
                   all_new_feed_items, updates_made, i, responses, fin, fout, rin, rout, dailyVars>>

\* the row after "Save Changes": every segment cell, then the total
EditedRow(row, edit_vals) ==
    [row EXCEPT !.seg = edit_vals, !.total_count = SumCounts(edit_vals)]

\* the script run of "Save Changes", whatever other handler is running
SaveChanges ==
    /\ \E selected_runner \in {sheet[k].name : k \in DOMAIN sheet}, edit_vals \in FormValues :
        LET row_idx == FirstIndexByName(sheet, selected_runner)
        IN  sheet' = [sheet EXCEPT ![row_idx] = EditedRow(@, edit_vals)]
    /\ last_edit' = "edit"
    /\ UNCHANGED <<upstream, feed, pc, force_full_sync, records, df_sync, existing_keys,
                   all_new_feed_items, updates_made, i, responses, fin, fout, rin, rout, dailyVars>>

\* Edit tab: "Save Changes" for the selected runner
EditRunner == pc = "idle" /\ SaveChanges

\* the script run of "Delete Runner", whatever other handler is running
DeleteClicked ==
    /\ \E runner_to_del \in {sheet[k].name : k \in DOMAIN sheet} :
        sheet' = RemoveAt(sheet, FirstIndexByName(sheet, runner_to_del))
    /\ last_edit' = "delete"
    /\ UNCHANGED <<upstream, feed, pc, force_full_sync, records, df_sync, existing_keys,
                   all_new_feed_items, updates_made, i, responses, fin, fout, rin, rout, dailyVars>>

\* Delete tab: "Delete Runner"
DeleteRunner == pc = "idle" /\ DeleteClicked

\* an athlete records a new activity upstream
UpstreamAdd ==
    /\ pc = "idle"
    /\ \E id \in ActivityIds \ upstream : upstream' = upstream \cup {id}
    /\ UNCHANGED <<sheet, feed, pc, force_full_sync, records, df_sync, existing_keys,
                   all_new_feed_items, updates_made, i, responses, last_edit, fin, fout, rin, rout, dailyVars>>

-----------------------------------------------------------------------------
(* app.py and daily_sync.py: registration without backfill, and the
   scheduled sync over that sheet *)

\* int(CHALLENGE_START_DATE.timestamp()) of app.py on the model's time scale
APP_CHALLENGE_START == 1

\* SEGMENT_IDS of daily_sync.py
DAILY_SEGMENT_IDS == {1, 2}

DailyIdle ==
    /\ dsheet = <<>>
    /\ dpc = "idle"
    /\ drows = <<>>
    /\ di = 0
    /\ latest_run_time = 0
    /\ dlog = <<>>

\* the row app.py appends for a new athlete
JoinRow(ath) ==
    [athlete_id |-> ath.id, name |-> FullName(ath), refresh_token |-> ath.refresh_token,
     total_count |-> 0, last_activity_epoch |-> APP_CHALLENGE_START]

\* app.py: the OAuth callback of an athlete
Join ==
    /\ \E ath \in Athletes :
        IF \E k \in DOMAIN dsheet : dsheet[k].athlete_id = ath.id
        THEN UNCHANGED dsheet
        ELSE dsheet' = Append(dsheet, JoinRow(ath))
    /\ UNCHANGED <<upstream, sheet, feed, syncLocals, last_edit, fin, fout, rin, rout,
                   dpc, drows, di, latest_run_time, dlog>>

\* refresh_token(token) of daily_sync.py: the access credential, None, or the
\* KeyError of res.json()['access_token']
refresh_token(resp, token) ==
    CASE resp = "ok" -> AccessTokenOf(token)
      [] resp = "no_access_token" -> "KeyError"
      [] OTHER -> None

\* whether sync() looks at the activity at all: it has no type test
DailySkipped(act) == FALSE

\* the efforts of the detail body: an error body carries no segment_efforts
DetailEfforts(act, detail_ok) == IF act.id \in detail_ok THEN act.efforts ELSE <<>>

\* len(matches)
DailyMatches(efforts) ==
    Cardinality({k \in DOMAIN efforts : efforts[k] \in DAILY_SEGMENT_IDS})

\* One iteration of `for act in new_activities`.
DailyOne(st, act, detail_ok) ==
    IF DailySkipped(act) THEN st
    ELSE [new_segment_count |-> st.new_segment_count
                                  + DailyMatches(DetailEfforts(act, detail_ok)),
          latest_run_time |-> IF act.start_date > st.latest_run_time
                              THEN act.start_date ELSE st.latest_run_time,
          calls |-> st.calls \o <<[op |-> "sleep", id |-> act.id],
                                  [op |-> "detail", id |-> act.id]>>]

RECURSIVE DailyLoop(_, _, _)
DailyLoop(st, new_activities, detail_ok) ==
    IF new_activities = <<>> THEN st
    ELSE DailyLoop(DailyOne(st, Head(new_activities), detail_ok),
                   Tail(new_activities), detail_ok)

\* the upstream responses one row of sync() can meet
DailyResponses(up, row) ==
    {[token |-> t, list_ok |-> FALSE, detail_fail |-> {}] :
        t \in IF OwnerOf(row.refresh_token) = 0 THEN {"non200"} ELSE TokenResponses}
    \cup {[token |-> "ok", list_ok |-> TRUE, detail_fail |-> d] :
            d \in SUBSET {id \in up : /\ OwnerOf(row.refresh_token) # 0
                                      /\ Activity(id).owner = OwnerOf(row.refresh_token)
                                      /\ Activity(id).start_date > row.last_activity_epoch}}

\* the scheduled job starts: sync() reads the sheet
DailyStart ==
    /\ dpc = "idle"
    /\ drows' = dsheet
    /\ di' = 1
    /\ dlog' = <<>>
    /\ latest_run_time' = 0
    /\ dpc' = "loop"
    /\ UNCHANGED <<upstream, sheet, feed, syncLocals, last_edit, fin, fout, rin, rout, dsheet>>

\* one iteration of `for i, row in enumerate(rows)` up to the first cell update
DailyRow ==
    /\ dpc = "loop"
    /\ di <= Len(drows)
    /\ \E resp \in DailyResponses(upstream, drows[di]) :
        LET row == drows[di]
            access_token == refresh_token(resp.token, row.refresh_token)
            entry(mode, count, calls) ==
                [token |-> resp.token, mode |-> mode, list_ok |-> resp.list_ok,
                 detail_fail |-> resp.detail_fail, count |-> count, calls |-> calls]
        IN  IF access_token = "KeyError"
            THEN /\ dpc' = "crashed"
                 /\ dlog' = Append(dlog, entry("raised", 0, <<[op |-> "token", id |-> 0]>>))
                 /\ UNCHANGED <<dsheet, di, latest_run_time>>
            ELSE IF access_token = None
            THEN /\ di' = di + 1
                 /\ dlog' = Append(dlog, entry("no_auth", 0, <<[op |-> "token", id |-> 0]>>))
                 /\ UNCHANGED <<dsheet, dpc, latest_run_time>>
            ELSE IF ~resp.list_ok
            THEN /\ di' = di + 1
                 /\ dlog' = Append(dlog, entry("no_list", 0,
                                <<[op |-> "token", id |-> 0], [op |-> "list", id |-> 0],
                                  [op |-> "sleep1", id |-> 0]>>))
                 /\ UNCHANGED <<dsheet, dpc, latest_run_time>>
            ELSE LET new_activities == ListActivities(upstream, access_token,
                                                      row.last_activity_epoch, PER_PAGE)
                     st == DailyLoop([new_segment_count |-> 0,
                                      latest_run_time |-> row.last_activity_epoch,
                                      calls |-> <<[op |-> "token", id |-> 0],
                                                  [op |-> "list", id |-> 0]>>],
                                     new_activities, ActivityIds \ resp.detail_fail)
                 IN  IF new_activities # <<>>
                     THEN /\ dsheet' = [dsheet EXCEPT ![di].total_count =
                                           row.total_count + st.new_segment_count]
                          /\ latest_run_time' = st.latest_run_time
                          /\ dpc' = "bookmark"
                          /\ dlog' = Append(dlog, entry("merged", st.new_segment_count,
                                                        st.calls))
                          /\ UNCHANGED di
                     ELSE /\ di' = di + 1
                          /\ dlog' = Append(dlog, entry("nothing_new", 0,
                                         st.calls \o <<[op |-> "sleep1", id |-> 0]>>))
                          /\ UNCHANGED <<dsheet, dpc, latest_run_time>>
    /\ UNCHANGED <<upstream, sheet, feed, syncLocals, last_edit, fin, fout, rin, rout, drows>>

\* sheet.update_cell(i + 2, 5, latest_run_time), then the buffer between users
DailyBookmark ==
    /\ dpc = "bookmark"
    /\ dsheet' = [dsheet EXCEPT ![di].last_activity_epoch = latest_run_time]
    /\ dlog' = [dlog EXCEPT ![di].calls = Append(@, [op |-> "sleep1", id |-> 0])]
    /\ latest_run_time' = 0
    /\ di' = di + 1
    /\ dpc' = "loop"
    /\ UNCHANGED <<upstream, sheet, feed, syncLocals, last_edit, fin, fout, rin, rout, drows>>

\* bound: the largest total a row can show when the job is interrupted
MaxTotal == 2

\* the process dies between the two cell updates: the second update_cell
\* raises, or the job is cancelled
DailyInterrupted ==
    /\ dpc = "bookmark"
    /\ dsheet[di].total_count <= MaxTotal
    /\ dpc' = "interrupted"
    /\ UNCHANGED <<upstream, sheet, feed, syncLocals, last_edit, fin, fout, rin, rout,
                   dsheet, drows, di, latest_run_time, dlog>>

\* the loop is over: sync() returns
DailyDone ==
    /\ dpc = "loop"
    /\ di > Len(drows)
    /\ dpc' = "done"
    /\ UNCHANGED <<upstream, sheet, feed, syncLocals, last_edit, fin, fout, rin, rout,
                   dsheet, drows, di, latest_run_time, dlog>>

\* the process exits, after sync() returned or raised
DailyExit ==
    /\ dpc \in {"done", "crashed", "interrupted"}
    /\ dpc' = "idle"
    /\ drows' = <<>>
    /\ di' = 0
    /\ latest_run_time' = 0
    /\ dlog' = <<>>
    /\ UNCHANGED <<upstream, sheet, feed, syncLocals, last_edit, fin, fout, rin, rout, dsheet>>

\* an athlete records a new activity upstream, between two runs of the job
DailyUpstreamAdd ==
    /\ dpc = "idle"
    /\ \E id \in ActivityIds \ upstream : upstream' = upstream \cup {id}
    /\ UNCHANGED <<sheet, feed, syncLocals, last_edit, fin, fout, rin, rout, dailyVars>>

\* a row of the sheet that stands for a runner without a live credential,
\* entered by hand or by the admin tabs of the leaderboard app
PlaceholderRow(credential) ==
    [athlete_id |-> 70, name |-> "Cat", refresh_token |-> credential,
     total_count |-> 1, last_activity_epoch |-> 0]

InitDaily ==
    /\ upstream = {}
    /\ sheet = <<>>
    /\ feed = <<>>
    /\ IdleLocals
    /\ last_edit = NoUpdatesYet
    /\ fin = <<>>
    /\ fout = <<>>
    /\ rin = <<>>
    /\ rout = <<>>
    /\ dsheet \in {<<>>, <<PlaceholderRow("MANUAL")>>, <<PlaceholderRow("SCRAPED")>>}
    /\ dpc = "idle"
    /\ drows = <<>>
    /\ di = 0
    /\ latest_run_time = 0
    /\ dlog = <<>>

NextDaily ==
    \/ DailyUpstreamAdd
    \/ Join
    \/ DailyStart
    \/ DailyRow
    \/ DailyBookmark
    \/ DailyInterrupted
    \/ DailyDone
    \/ DailyExit

SpecDaily == InitDaily /\ [][NextDaily]_vars

-----------------------------------------------------------------------------
(* The app: the operations run one after another *)

Init ==
    /\ upstream = {}
    /\ sheet = <<>>
    /\ feed = <<>>
    /\ IdleLocals
    /\ last_edit = NoUpdatesYet
    /\ fin = <<>>
    /\ fout = <<>>
    /\ rin = <<>>
    /\ rout = <<>>
    /\ DailyIdle

Next ==
    \/ UpstreamAdd
    \/ Register
    \/ SyncStart
    \/ SyncRow
    \/ SyncWrite
    \/ SyncWriteFail
    \/ SyncRaised
    \/ SyncFeed
    \/ SyncMark

Spec == Init /\ [][Next]_vars

-----------------------------------------------------------------------------
(* The app with its admin tabs: every operation run to completion *)

\* a placeholder row seeded by hand for a runner who has not connected yet
ScrapedRow == RowOf(70, "Ann A", "SCRAPED", 0, [sid \in SEGMENT_IDS |-> IF sid = 1 THEN 1 ELSE 0])

InitAdmin ==
    /\ upstream = {2, 4}
    /\ sheet \in {<<>>, <<ScrapedRow>>}
    /\ feed = <<>>
    /\ IdleLocals
    /\ last_edit = NoUpdatesYet
    /\ fin = <<>>
    /\ fout = <<>>
    /\ rin = <<>>
    /\ rout = <<>>
    /\ DailyIdle

NextAdmin ==
    \/ UpstreamAdd
    \/ Register
    \/ AddRunner
    \/ EditRunner
    \/ DeleteRunner
    \/ SyncCycle

SpecAdmin == InitAdmin /\ [][NextAdmin]_vars

-----------------------------------------------------------------------------
(* The roster under registrations and deletions only *)

\* a placeholder row that carries the athlete id of the runner it stands for
ScrapedRowWithId == RowOf(2, "Bob B", "SCRAPED", 0, [sid \in SEGMENT_IDS |-> 0])

InitRoster ==
    /\ upstream = {}
    /\ sheet \in {<<>>, <<ScrapedRow>>, <<ScrapedRowWithId>>}
    /\ feed = <<>>
    /\ IdleLocals
    /\ last_edit = NoUpdatesYet
    /\ fin = <<>>
    /\ fout = <<>>
    /\ rin = <<>>
    /\ rout = <<>>
    /\ DailyIdle

NextRoster ==
    \/ UpstreamAdd
    \/ Register
    \/ DeleteRunner

SpecRoster == InitRoster /\ [][NextRoster]_vars

-----------------------------------------------------------------------------
(* Sync cycles whose list calls all answer 200, over runners who connected
   before they had recorded anything *)

AthleteById(id) == CHOOSE ath \in Athletes : ath.id = id

\* the row the callback appended for an athlete with no activity upstream yet
RegisteredEarly(ath) ==
    NewRunnerRow(ath, fetch_activities({}, TRUE, ActivityIds,
                                       AccessTokenOf(ath.refresh_token),
                                       CHALLENGE_START, FullName(ath)))

InitListed ==
    /\ upstream = {}
    /\ sheet \in {<<RegisteredEarly(AthleteById(1))>>,
                  <<RegisteredEarly(AthleteById(1)), RegisteredEarly(AthleteById(2))>>}
    /\ feed = <<>>
    /\ IdleLocals
    /\ last_edit = "registration"
    /\ fin = <<>>
    /\ fout = <<>>
    /\ rin = <<>>
    /\ rout = <<>>
    /\ DailyIdle

\* one iteration of the loop in which the list call, if made, answered 200
SyncRowListed ==
    /\ SyncRow
    /\ LET met == responses'[Len(responses')]
       IN  met.token = "ok" => met.list_ok

NextListed ==
    \/ UpstreamAdd
    \/ SyncStart
    \/ SyncRowListed
    \/ SyncWrite
    \/ SyncWriteFail
    \/ SyncRaised
    \/ SyncFeed
    \/ SyncMark

SpecListed == InitListed /\ [][NextListed]_vars

-----------------------------------------------------------------------------
(* A sync cycle with other sessions at work: a script run of another
   session is one step, taken while the Sync tab's handler is between its
   read of all records and its batched write.  One such run that changes the
   runner rows is followed per cycle. *)

\* no other session has changed the runner rows since the cycle read them
NoChangeSinceRead == pc = "loop" /\ sheet = records

InitRace ==
    /\ upstream = {1}
    /\ sheet \in {<<RegisteredEarly(AthleteById(1))>>,
                  <<RegisteredEarly(AthleteById(1)),
                    ManualRow(90, "Cat", [sid \in SEGMENT_IDS |-> 1])>>}
    /\ feed = <<>>
    /\ IdleLocals
    /\ last_edit = "registration"
    /\ fin = <<>>
    /\ fout = <<>>
    /\ rin = <<>>
    /\ rout = <<>>
    /\ DailyIdle

\* an athlete's callback arrives in another session while the loop runs
RegisterDuringSync == NoChangeSinceRead /\ HandleCallback

\* an admin saves an edit in another session while the loop runs
EditDuringSync == NoChangeSinceRead /\ SaveChanges

\* an admin deletes a runner in another session while the loop runs
DeleteDuringSync == NoChangeSinceRead /\ DeleteClicked

NextRace ==
    \/ SyncStart
    \/ SyncRow
    \/ RegisterDuringSync
    \/ EditDuringSync
    \/ DeleteDuringSync
    \/ SyncWrite
    \/ SyncWriteFail
    \/ SyncRaised
    \/ SyncFeed
    \/ SyncMark

SpecRace == InitRace /\ [][NextRace]_vars

-----------------------------------------------------------------------------
(* fetch_activities on its own: every upstream state, fetch-after epoch and
   pattern of upstream responses *)

\* the epochs the callers pass: the challenge start or a stored watermark
StartEpochs == {CHALLENGE_START, 2, 3}

FetchInputs ==
    {[up |-> up, list_ok |-> ok, detail_fail |-> d, access_token |-> t,
      start_epoch |-> e, runner_name |-> "Ann A"] :
        up \in SUBSET ActivityIds, ok \in BOOLEAN, d \in SUBSET {1, 3},
        t \in {"at1", "at2"}, e \in StartEpochs}

InitFetch ==
    /\ upstream = {}
    /\ sheet = <<>>
    /\ feed = <<>>
    /\ IdleLocals
    /\ last_edit = NoUpdatesYet
    /\ fin \in {<<x>> : x \in FetchInputs}
    /\ fout = <<>>
    /\ rin = <<>>
    /\ rout = <<>>
    /\ DailyIdle

FetchCall ==
    /\ fin # <<>>
    /\ fout = <<>>
    /\ fout' = <<fetch_activities(fin[1].up, fin[1].list_ok,
                                  ActivityIds \ fin[1].detail_fail, fin[1].access_token,
                                  fin[1].start_epoch, fin[1].runner_name)>>
    /\ UNCHANGED <<upstream, sheet, feed, syncLocals, last_edit, fin, rin, rout, dailyVars>>

NextFetch == FetchCall

SpecFetch == InitFetch /\ [][NextFetch]_vars

-----------------------------------------------------------------------------
(* A sync cycle over one stored row, run twice in succession against the
   same upstream state and the same upstream responses, with the force
   checkbox ticked or not *)

\* the stored rows of athlete 1 a cycle can find: written by the app, or with
\* a total or a watermark cell changed by hand (a blank watermark reads as 0)
ResyncRows ==
    {[RowOf(1, "Ann A", "rt1", w, c) EXCEPT !.total_count = @ + d] :
        w \in 0..3, c \in [SEGMENT_IDS -> 0..2], d \in {0, 1}}
    \cup {ScrapedRow, ManualRow(90, "Cat", [sid \in SEGMENT_IDS |-> 1])}

\* the stored row after one whole cycle over a sheet holding just `row`
CycleOnRow(row, up, resp, force) ==
    LET loop == ProcessRow(StartLoop(<<row>>, <<>>, TRUE), 1, resp, up, force)
    IN  BatchWrite(<<row>>, loop.df_sync, loop.updates_made)[1]

\* what the loop logged for that row: the mode and fetch-after epoch chosen,
\* the responses met, the batch fetched and the upstream calls made
CycleLog(row, up, resp, force) ==
    ProcessRow(StartLoop(<<row>>, <<>>, TRUE), 1, resp, up, force).responses[1]

InitResync ==
    /\ upstream = {}
    /\ sheet = <<>>
    /\ feed = <<>>
    /\ IdleLocals
    /\ last_edit = NoUpdatesYet
    /\ fin = <<>>
    /\ fout = <<>>
    /\ \E up \in SUBSET ActivityIds, row \in ResyncRows, force \in BOOLEAN :
       \E resp \in RowResponses(up, force, row) :
          /\ resp \in RowResponses(up, force, CycleOnRow(row, up, resp, force))
          /\ rin = <<[up |-> up, row |-> row, resp |-> resp, force |-> force]>>
    /\ rout = <<>>
    /\ DailyIdle

ResyncOnce ==
    /\ rin # <<>>
    /\ Len(rout) < 2
    /\ rout' = Append(rout, CycleOnRow(IF rout = <<>> THEN rin[1].row ELSE rout[Len(rout)],
                                       rin[1].up, rin[1].resp, rin[1].force))
    /\ UNCHANGED <<upstream, sheet, feed, syncLocals, last_edit, fin, fout, rin, dailyVars>>

NextResync == ResyncOnce

SpecResync == InitResync /\ [][NextResync]_vars

-----------------------------------------------------------------------------
(* Properties of the Sync tab's cycle.  After the batched write (pc is "feed"
   or "mark") `records` still holds the rows as they were read at the start
   of the cycle and `responses` what each row met. *)

AfterWrite == pc \in {"feed", "mark"}

\* the stored counts, total and watermark of row k are those the cycle read
SameTallies(k) ==
    /\ sheet[k].seg = records[k].seg
    /\ sheet[k].total_count = records[k].total_count
    /\ sheet[k].last_synced = records[k].last_synced

\* the row's list call was made and did not answer 200
ListFailed(k) == responses[k].token = "ok" /\ ~responses[k].list_ok

\* one of the row's detail calls did not answer 200
DetailFailed(k) == responses[k].token = "ok" /\ responses[k].detail_fail # {}

\* the row's token refresh gave no access credential
RefreshFailed(k) == responses[k].token \in {"no_access_token", "non200"}

\* C1: the stored last_synced of every runner after a sync cycle is greater
\* than or equal to its value before the cycle, in every mode and under every
\* upstream outcome.
C1_WatermarkNeverDecreases ==
    AfterWrite =>
        \A k \in DOMAIN records : sheet[k].last_synced >= records[k].last_synced

\* C2: a runner whose activities-list call answered non-200 has the same
\* stored per-segment counts, total and last_synced after the cycle as before
\* it, in either mode, and the loop went on over the remaining runners.
C2_ListFailureChangesNothing ==
    AfterWrite =>
        \A k \in DOMAIN records :
            ListFailed(k) => SameTallies(k) /\ Len(responses) = Len(records)

\* C3: a runner one of whose detail calls answered non-200 contributes no
\* update: its stored counts, total and watermark after the cycle are those
\* before it.
C3_DetailFailureChangesNothing ==
    AfterWrite =>
        \A k \in DOMAIN records : DetailFailed(k) => SameTallies(k)

\* The Sync tab side of C5: a row whose token refresh gave no access
\* credential is stored unchanged and the loop went over every row.
App_RefreshFailureSkipsOnlyThatRunner ==
    AfterWrite =>
        \A k \in DOMAIN records :
            RefreshFailed(k) => sheet[k] = records[k] /\ Len(responses) = Len(records)

\* C6: the activity feed never holds two entries with the same
\* (runner name, activity timestamp) key.
C6_FeedKeysUnique ==
    \A j, k \in DOMAIN feed : j # k => FeedKey(feed[j]) # FeedKey(feed[k])

\* The Sync tab writes no runner row while its loop runs.
App_NoRowWrittenInsideLoop == pc = "loop" => sheet = records

\* C14: when the batched write of a cycle fails, the runner rows and the feed
\* stay as they were before the cycle, the last-update marker is not stamped
\* and the exception leaves the handler; the feed append and the marker
\* update are reached only through a batched write that succeeded.
C14_FailedWriteLeavesStoreAlone ==
    [][ /\ (pc = "loop" /\ pc' # "feed") =>
              /\ sheet' = records
              /\ feed' = feed
              /\ last_edit' = last_edit
              /\ pc' \in {"loop", "raised"}
        /\ pc = "raised" =>
              /\ UNCHANGED <<sheet, feed, last_edit>>
              /\ pc' = "idle"
        /\ (pc' = "feed" /\ pc # "feed") =>
              /\ pc = "loop"
              /\ sheet' = BatchWrite(sheet, df_sync, updates_made)
        /\ (pc # "idle" /\ (feed' # feed \/ last_edit' # last_edit)) =>
              pc \in {"feed", "mark"} ]_vars

\* the batched write of a cycle with updated rows and queued feed items raised
C14_Witness ==
    /\ pc = "raised"
    /\ df_sync # records
    /\ all_new_feed_items # <<>>
    /\ sheet = records

\* The Sync tab's side of C17: the calls made for every polled row end with
\* the inter-runner delay, after a failed refresh and after a failed fetch too.
App_DelayAfterEveryPolledRunner ==
    \A k \in DOMAIN responses :
        responses[k].calls # <<>> =>
            responses[k].calls[Len(responses[k].calls)] = [op |-> "sleep1", id |-> 0]

\* the upstream calls of one runner in the order the code issues them: the
\* token call first, at most one list call, every detail call after the list
\* call and with the pause for that activity right before it
CallsInOrder(calls) ==
    /\ calls[1].op = "token"
    /\ \A j \in DOMAIN calls :
          /\ calls[j].op = "token" => j = 1
          /\ calls[j].op = "list" => j = 2
          /\ calls[j].op = "detail" =>
                /\ j > 3
                /\ calls[2].op = "list"
                /\ calls[j - 1] = [op |-> "sleep", id |-> calls[j].id]

\* C18: every detail call comes right after a blocking pause, a runner's
\* detail calls come one at a time after its single list call, and the calls
\* of a runner are all made before the loop turns to the next runner.
C18_DetailCallsPacedAndSequential ==
    /\ \A k \in DOMAIN responses :
          responses[k].calls # <<>> => CallsInOrder(responses[k].calls)
    /\ pc = "loop" => Len(responses) = i - 1

\* a cycle over two runners in which one runner had two detail calls
C18_Witness ==
    /\ pc = "feed"
    /\ Len(responses) = 2
    /\ \A k \in DOMAIN responses : responses[k].token = "ok" /\ responses[k].list_ok
    /\ \E k \in DOMAIN responses :
          Cardinality({j \in DOMAIN responses[k].calls :
                          responses[k].calls[j].op = "detail"}) = 2

\* the name row k's feed items carry
RunnerName(k) == StripMarker(records[k].name)

\* the activities whose detail row k's fetch got with at least one effort on
\* a tracked segment
MatchedIds(k) ==
    {id \in ActivityIds :
        /\ \E j \in DOMAIN responses[k].calls :
              responses[k].calls[j] = [op |-> "detail", id |-> id]
        /\ id \notin responses[k].detail_fail
        /\ Matched(Activity(id).efforts) > 0}

\* the positions of the queue that hold the entry of row k's activity id
QueuedAt(k, id) ==
    {j \in DOMAIN all_new_feed_items :
        all_new_feed_items[j] = FeedItem(RunnerName(k), Activity(id))}

\* every queued entry belongs to an activity whose detail was fetched in this
\* cycle and matched
QueuedOnlyIfMatched ==
    \A j \in DOMAIN all_new_feed_items :
        \E k \in DOMAIN responses : \E id \in MatchedIds(k) : j \in QueuedAt(k, id)

C9_IncrementalAddsBatch ==
    AfterWrite =>
        \A k \in DOMAIN records :
            responses[k].mode = "INCREMENTAL" =>
                /\ \A sid \in SEGMENT_IDS :
                      sheet[k].seg[sid] = records[k].seg[sid] + responses[k].counts[sid]
                /\ sheet[k].total_count =
                      records[k].total_count + SumCounts(responses[k].counts)

\* an INCREMENTAL merge of a batch that is not empty has been written
C9_Witness ==
    /\ AfterWrite
    /\ \E k \in DOMAIN records :
          /\ responses[k].mode = "INCREMENTAL"
          /\ SumCounts(responses[k].counts) > 0
          /\ records[k].total_count > 0

-----------------------------------------------------------------------------
(* Properties of the store under every operation of the app *)

\* C4: every stored runner record has total_count equal to the sum of its
\* per-segment counts, after any sequence of registrations, manual adds,
\* admin edits and sync merges.
C4_TotalIsSumOfSegments ==
    \A k \in DOMAIN sheet : sheet[k].total_count = SumCounts(sheet[k].seg)

\* a connected row whose count on segment 2 was edited to 1 and then grew by
\* an INCREMENTAL merge, next to a hand-entered row with counts
C4_Witness ==
    /\ \E k \in DOMAIN sheet : ~NotPolled(sheet[k]) /\ sheet[k].seg[2] = 2
    /\ \E k \in DOMAIN sheet : sheet[k].refresh_token = "MANUAL" /\ sheet[k].total_count > 0

-----------------------------------------------------------------------------
(* Properties of the roster *)

\* no two rows carry the same athlete_id
UniqueIds(rows) ==
    \A j, k \in DOMAIN rows : rows[j].athlete_id = rows[k].athlete_id => j = k

\* C22: under registrations, SCRAPED upgrades and deletions no two rows of
\* the roster ever carry the same athlete_id, and a row whose athlete_id stays
\* in the roster is left as it was: a registration for an athlete_id that is
\* present adds no row and changes none.
C22_AthleteIdsUnique ==
    [][ /\ UniqueIds(sheet')
        /\ \A k \in DOMAIN sheet : \A j \in DOMAIN sheet' :
              sheet'[j].athlete_id = sheet[k].athlete_id => sheet'[j] = sheet[k] ]_vars

\* athlete 2 is in the roster as a placeholder carrying its id, athlete 1 has
\* connected with a backfill that found matching activities
C22_Witness ==
    /\ Len(sheet) = 2
    /\ sheet[1] = ScrapedRowWithId
    /\ sheet[2].athlete_id = 1
    /\ sheet[2].total_count > 0
    /\ last_edit = "registration"

\* the entries a step appended to the feed
Appended == {j \in DOMAIN feed' : j > Len(feed)}

\* C26: no step of registrations and deletions appends to the feed an entry
\* whose (runner name, activity timestamp) key is stored in the feed already,
\* or two entries with one key: the feed keeps at most one entry per key.
C26_BackfillAppendsNoStoredKey ==
    [][ \A j \in Appended :
          /\ \A m \in DOMAIN feed : FeedKey(feed'[j]) # FeedKey(feed[m])
          /\ \A m \in Appended : FeedKey(feed'[j]) = FeedKey(feed'[m]) => j = m ]_vars

-----------------------------------------------------------------------------
(* Properties of the stored counts against the upstream activities *)

\* the upstream activities of the row's athlete of a tracked type that start
\* after the challenge start and at or before the row's watermark
BehindWatermark(row, up) ==
    {id \in up : /\ Activity(id).owner = row.athlete_id
                 /\ Activity(id).type \in TRACKED_TYPES
                 /\ Activity(id).start_date > CHALLENGE_START
                 /\ Activity(id).start_date <= row.last_synced}

\* the number of efforts on segment sid in the activities `ids`
EffortsOn(ids, sid) ==
    SumOver([id \in ids |-> Occurrences(Activity(id).efforts, sid)], ids)

\* C23: every tracked-type upstream activity of a connected runner that
\* starts after the challenge start and at or before the runner's stored
\* watermark has its efforts on the tracked segments in the stored counts.
C23_WatermarkCoversOnlyCounted ==
    \A k \in DOMAIN sheet :
        ~NotPolled(sheet[k]) =>
            \A sid \in SEGMENT_IDS :
                sheet[k].seg[sid] >= EffortsOn(BehindWatermark(sheet[k], upstream), sid)

\* the upstream activities of the row's athlete since the challenge start
SinceStart(row, up) ==
    {id \in up : /\ Activity(id).owner = row.athlete_id
                 /\ Activity(id).start_date > CHALLENGE_START}

\* C24: under registration backfills, INCREMENTAL cycles and FULL cycles in
\* any order, the stored count of every tracked segment of a connected runner
\* is at most the number of efforts on that segment in the runner's upstream
\* activities since the challenge start: no effort is added twice.
C24_NoEffortCountedTwice ==
    \A k \in DOMAIN sheet :
        ~NotPolled(sheet[k]) =>
            \A sid \in SEGMENT_IDS :
                sheet[k].seg[sid] <= EffortsOn(SinceStart(sheet[k], upstream), sid)

\* a runner whose backfill stored counts has had an INCREMENTAL merge of a
\* batch that is not empty, and every stored count equals the efforts upstream
C24_Witness ==
    /\ AfterWrite
    /\ \E k \in DOMAIN records :
          /\ responses[k].mode = "INCREMENTAL"
          /\ SumCounts(responses[k].counts) > 0
          /\ records[k].total_count > 0
          /\ \A sid \in SEGMENT_IDS :
                /\ sheet[k].seg[sid] > 0
                /\ sheet[k].seg[sid] = EffortsOn(SinceStart(sheet[k], upstream), sid)

-----------------------------------------------------------------------------
(* Properties of a cycle that runs next to other sessions *)

\* the step is the batched write-back of the running cycle
WriteBack == pc = "loop" /\ pc' = "feed"

AthleteIds(rows) == {rows[k].athlete_id : k \in DOMAIN rows}

\* the cycle holds no change of its own for the stored row: the row was not
\* in the snapshot, or the snapshot's row of that athlete is as it was read
NotMerged(row) ==
    \A k \in DOMAIN records :
        records[k].athlete_id = row.athlete_id => df_sync[k] = records[k]

\* C25: a change another session made to the store between the cycle's read
\* of all records and its batched write is still there after the write: the
\* write brings back no deleted runner, drops no runner, and every stored row
\* the cycle has no change for is after the write as it was before it.
C25_ConcurrentChangeSurvivesWrite ==
    [][ WriteBack =>
          /\ AthleteIds(sheet') = AthleteIds(sheet)
          /\ \A j \in DOMAIN sheet :
                NotMerged(sheet[j]) => \E m \in DOMAIN sheet' : sheet'[m] = sheet[j] ]_vars

\* the step is one of the Sync tab's handler: it moves the handler on
CycleStep == pc' # pc \/ i' # i

\* the cycle has polled row k with a credential refresh that succeeded
Refreshed(k) ==
    /\ k \in DOMAIN responses
    /\ k \in DOMAIN df_sync
    /\ ~NotPolled(df_sync[k])
    /\ responses[k].token = "ok"

\* C28: no step of a sync cycle adds, removes or reorders runner rows or
\* changes a row's athlete_id, name or refresh credential, and a row the
\* step changes is one the cycle polled with a refresh that succeeded.
C28_CycleChangesOnlyTallies ==
    [][ CycleStep =>
          /\ Len(sheet') = Len(sheet)
          /\ \A k \in DOMAIN sheet :
                /\ sheet'[k].athlete_id = sheet[k].athlete_id
                /\ sheet'[k].name = sheet[k].name
                /\ sheet'[k].refresh_token = sheet[k].refresh_token
                /\ sheet'[k] # sheet[k] => Refreshed(k) ]_vars

-----------------------------------------------------------------------------
(* Properties of fetch_activities *)

\* the activities the list call of the stand-alone fetch returned
Listed == ListActivities(fin[1].up, fin[1].access_token, fin[1].start_epoch, PER_PAGE)

Fetched == fout # <<>> /\ fin[1].list_ok

DetailCalled(id) == \E k \in DOMAIN fout[1].calls : fout[1].calls[k] = [op |-> "detail", id |-> id]

HasFeedItem(id) == \E k \in DOMAIN fout[1].feed_items : fout[1].feed_items[k].Title = id

MaxOf(S) == CHOOSE x \in S : \A y \in S : y <= x

\* the stand-alone fetch run against the upstream without the activities of
\* other types
FetchWithoutOtherTypes ==
    fetch_activities({id \in fin[1].up : ~TypeSkipped(Activity(id))}, fin[1].list_ok,
                     ActivityIds \ fin[1].detail_fail, fin[1].access_token,
                     fin[1].start_epoch, fin[1].runner_name)

DetailGot == {id \in ActivityIds : DetailCalled(id) /\ id \notin fin[1].detail_fail}

\* the effort records of the activities `ids` whose segment id is in `sids`
EffortRecords(ids, sids) ==
    UNION {{<<id, k>> : k \in {j \in DOMAIN Activity(id).efforts :
                                   Activity(id).efforts[j] \in sids}} : id \in ids}

\* C20: each tracked segment's increment is the number of effort records of
\* the fetched details that carry its id, repeated efforts counted each
\* time, and efforts on other segments add to no counter and not to the total.
C20_EveryEffortRecordCounts ==
    fout # <<>> =>
        /\ \A sid \in SEGMENT_IDS :
              fout[1].counts[sid] = Cardinality(EffortRecords(DetailGot, {sid}))
        /\ SumCounts(fout[1].counts) = Cardinality(EffortRecords(DetailGot, SEGMENT_IDS))

\* one detail was fetched: a run with two efforts on one tracked segment and
\* one effort on a segment that is not tracked
C20_Witness ==
    /\ fout # <<>>
    /\ DetailGot = {1}
    /\ Occurrences(Activity(1).efforts, 1) = 2
    /\ \E k \in DOMAIN Activity(1).efforts : Activity(1).efforts[k] \notin SEGMENT_IDS
    /\ fout[1].counts[1] = 2
    /\ SumCounts(fout[1].counts) = 2

-----------------------------------------------------------------------------
(* Properties of two forced resyncs in succession *)

\* both cycles fetched the row in FULL mode
BothFull ==
    /\ Len(rout) = 2
    /\ FetchMode(rin[1].force, rin[1].row.last_synced) = "FULL"
    /\ FetchMode(rin[1].force, rout[1].last_synced) = "FULL"

\* C10: a second FULL resync against the same upstream activities and the
\* same upstream responses leaves the per-segment counts, the total and the
\* watermark the first one left.
C10_FullResyncTwiceSame ==
    BothFull =>
        /\ rout[2].seg = rout[1].seg
        /\ rout[2].total_count = rout[1].total_count
        /\ rout[2].last_synced = rout[1].last_synced

\* both resyncs ran, the first changed the stored row and left counts
C10_Witness ==
    /\ BothFull
    /\ rin[1].resp.token = "ok"
    /\ rout[1] # rin[1].row
    /\ rout[1].total_count > 0

\* what the first cycle logged for the row
FirstLog == CycleLog(rin[1].row, rin[1].up, rin[1].resp, rin[1].force)

\* the tallies of a fetch from the challenge start under the cycle's responses
FreshTallies ==
    fetch_activities(rin[1].up, rin[1].resp.list_ok, ActivityIds \ rin[1].resp.detail_fail,
                     AccessTokenOf(rin[1].row.refresh_token), CHALLENGE_START,
                     StripMarker(rin[1].row.name)).counts

\* the stored total of the row the cycle read differs from its segment sum
StoredTotalOff == rin[1].row.total_count # SumCounts(rin[1].row.seg)

\* C11: after a FULL merge the stored per-segment counts and the stored total
\* are exactly the tallies of this cycle's fetch, whatever was stored before
\* (a stored total that differed from the segment sum included), and the
\* total is the sum of the segment counts.
C11_FullMergeStoresFreshTallies ==
    (Len(rout) >= 1 /\ FirstLog.mode = "FULL") =>
        /\ rout[1].seg = FreshTallies
        /\ rout[1].total_count = SumCounts(FreshTallies)
        /\ rout[1].total_count = SumCounts(rout[1].seg)

\* a FULL merge over a row whose stored total was off and whose stored counts
\* differ from the fetched ones
C11_Witness ==
    /\ Len(rout) >= 1
    /\ FirstLog.mode = "FULL"
    /\ StoredTotalOff
    /\ SumCounts(FreshTallies) > 0
    /\ rin[1].row.seg # FreshTallies
    /\ rout[1].seg = FreshTallies

\* C12: after an INCREMENTAL merge the stored total is the sum of the stored
\* segment counts, also when the row read at the start of the cycle had a
\* total that differed from its segment sum.
C12_IncrementalMergeRecomputesTotal ==
    (Len(rout) >= 1 /\ FirstLog.mode = "INCREMENTAL") =>
        rout[1].total_count = SumCounts(rout[1].seg)

\* An INCREMENTAL merge keeps the offset between the stored total and the
\* stored segment sum as it was read.
App_IncrementalMergeCarriesOffset ==
    (Len(rout) >= 1 /\ FirstLog.mode = "INCREMENTAL") =>
        rout[1].total_count - SumCounts(rout[1].seg)
            = rin[1].row.total_count - SumCounts(rin[1].row.seg)

\* The Sync tab's side of C16: a MANUAL or SCRAPED row gets no upstream call
\* and is stored as it was read.
App_PlaceholderRowsNeverPolled ==
    (Len(rout) >= 1 /\ NotPolled(rin[1].row)) =>
        FirstLog.calls = <<>> /\ rout[1] = rin[1].row

\* C15: a polled row is fetched in FULL mode from the challenge start exactly
\* when the force checkbox is ticked or its stored watermark is at or before
\* the challenge start; otherwise in INCREMENTAL mode from the stored watermark.
C15_ModePolicy ==
    (Len(rout) >= 1 /\ FirstLog.mode # None) =>
        LET full == rin[1].force \/ rin[1].row.last_synced <= CHALLENGE_START
        IN  /\ FirstLog.mode = (IF full THEN "FULL" ELSE "INCREMENTAL")
            /\ FirstLog.start = (IF full THEN CHALLENGE_START ELSE rin[1].row.last_synced)

\* an unforced cycle fetched a row whose watermark sits exactly at the
\* challenge start
C15_Witness ==
    /\ Len(rout) >= 1
    /\ ~rin[1].force
    /\ rin[1].row.last_synced = CHALLENGE_START
    /\ FirstLog.mode = "FULL"
    /\ FirstLog.calls # <<>>

-----------------------------------------------------------------------------
(* Properties of the scheduled daily sync.  When sync() has returned or
   raised (dpc is "done" or "crashed") drows still holds the rows it read and
   dlog what each row met. *)

DailyOver == dpc \in {"done", "crashed"}

\* C13: while runners remain to be processed in a sync run, no runner row of
\* the store differs from the rows the run read: nothing is written before
\* the last runner is done.
C13_NoRowWrittenBeforeLastRunner ==
    (\/ dpc = "loop" /\ di <= Len(drows)
     \/ dpc = "bookmark" /\ di < Len(drows))
        => \A k \in 1..Len(drows) : dsheet[k] = drows[k]

\* the row's credential is a live one
DailyLive(k) == drows[k].refresh_token \notin {"MANUAL", "SCRAPED"}

\* the last entry of a call log
LastCall(calls) == calls[Len(calls)]

\* C16: for a row whose credential is MANUAL or SCRAPED a sync run makes no
\* upstream call at all and leaves the stored row as it was.
C16_PlaceholderRowsNeverPolled ==
    \A k \in DOMAIN dlog :
        ~DailyLive(k) => dlog[k].calls = <<>> /\ dsheet[k] = drows[k]

\* C17: when the run has gone on to the next runner, the calls made for a
\* polled runner end with the inter-runner delay, whether that runner was
\* synced, failed the credential refresh or failed the list call.
C17_DelayAfterEveryPolledRunner ==
    \A k \in DOMAIN dlog :
        (DailyLive(k) /\ k < Len(dlog)) => LastCall(dlog[k].calls).op = "sleep1"

\* C19: the credential refresher never raises, whatever the token endpoint
\* answers, and a failed refresh never ends the run before the last row.
C19_RefresherNeverRaises ==
    /\ dpc # "crashed"
    /\ \A k \in DOMAIN dlog : dlog[k].mode # "raised"
    /\ dpc = "done" => Len(dlog) = Len(drows)

\* The daily sync's side of C18: the token call first, one list call, and each
\* detail call right after its pause.
Daily_CallsInOrder == \A k \in DOMAIN dlog : CallsInOrder(dlog[k].calls)

\* The Join callback's side of C22: no two rows of the daily sheet carry the
\* same athlete_id.
Daily_AthleteIdsUnique == UniqueIds(dsheet)

\* C5: a runner whose credential refresh failed has every stored field as
\* before the cycle, and every other runner of the roster was still
\* processed in that cycle.
C5_RefreshFailureSkipsOnlyThatRunner ==
    DailyOver =>
        \A k \in DOMAIN dlog :
            dlog[k].token # "ok" => dsheet[k] = drows[k] /\ Len(dlog) = Len(drows)

\* The daily sync side of C9: the total written for a row is the total read
\* plus the matches counted in this run.
Daily_TotalAddsBatch ==
    dpc = "bookmark" => dsheet[di].total_count = drows[di].total_count + dlog[di].count

DetailCallIds(calls) == {calls[k].id : k \in {j \in DOMAIN calls : calls[j].op = "detail"}}

RECURSIVE TrackedTypeMatches(_, _)
TrackedTypeMatches(ids, detail_fail) ==
    IF ids = {} THEN 0
    ELSE LET id == CHOOSE x \in ids : TRUE
         IN  (IF Activity(id).type \in TRACKED_TYPES /\ id \notin detail_fail
              THEN DailyMatches(Activity(id).efforts) ELSE 0)
             + TrackedTypeMatches(ids \ {id}, detail_fail)

\* The daily sync's side of C20: the count added for a row is the number of
\* effort records on tracked segments in the details it got.
Daily_EveryEffortRecordCounts ==
    \A k \in DOMAIN dlog :
        dlog[k].count = Cardinality(EffortRecords(DetailCallIds(dlog[k].calls)
                                                    \ dlog[k].detail_fail, DAILY_SEGMENT_IDS))

\* C8: an activity whose type is not Run, Walk or Hike never causes a detail
\* call and never changes a count or the total.
C8_OtherTypesNeverFetchedNorCounted ==
    \A k \in DOMAIN dlog :
        /\ \A id \in DetailCallIds(dlog[k].calls) : Activity(id).type \in TRACKED_TYPES
        /\ dlog[k].count = TrackedTypeMatches(DetailCallIds(dlog[k].calls),
                                              dlog[k].detail_fail)

\* the activities row k's list call returned in the running sync()
DailyBatch(k) ==
    ListActivities(upstream, AccessTokenOf(drows[k].refresh_token),
                   drows[k].last_activity_epoch, PER_PAGE)

\* C27: total_count and last_activity_epoch of a row are persisted together:
\* in no state of the sheet has the running sync() raised a row's total by a
\* batch while the row's bookmark is still before an activity of that batch.
C27_TotalAndBookmarkTogether ==
    \A k \in DOMAIN dlog :
        dsheet[k].total_count > drows[k].total_count =>
            \A j \in DOMAIN DailyBatch(k) :
                DailyBatch(k)[j].start_date <= dsheet[k].last_activity_epoch

\* The scheduled sync's side of C28: while sync() runs, the rows it read keep
\* their place, athlete_id, name and refresh credential, and a row whose
\* total or bookmark differs from what was read had its refresh succeed.
Daily_SyncChangesOnlyTallies ==
    dpc # "idle" =>
        \A k \in DOMAIN drows :
            /\ k \in DOMAIN dsheet
            /\ dsheet[k].athlete_id = drows[k].athlete_id
            /\ dsheet[k].name = drows[k].name
            /\ dsheet[k].refresh_token = drows[k].refresh_token
            /\ dsheet[k] # drows[k] => (k \in DOMAIN dlog /\ dlog[k].token = "ok")

====
